---- MODULE Spec2Model ----
(***************************************************************************)
(* State-machine model of the wlan.recon module (modules/wlan_recon.go):   *)
(* the command handlers registered by NewWDiscovery, the capture           *)
(* lifecycle (Configure / Start / Stop and the classify goroutine), the    *)
(* frame classifier (BSScan / ClientScan) and the deauthentication engine  *)
(* (buildDeauthPkt / SendDeauthPacket / SendDeauth).                       *)
(*                                                                         *)
(* Two threads of control are modelled: the command thread, which runs one *)
(* handler at a time, and the classify goroutines spawned by Start.  A     *)
(* hardware address (net.HardwareAddr, a byte slice) is a tuple: <<>> is   *)
(* the zero-length slice and <<a>> the address with identity a.            *)
(***************************************************************************)
EXTENDS Integers, Sequences, FiniteSets, TLC

\* ------------------------------------------------------------------ bounds
MaxAddr == 2       \* station identities 1..MaxAddr
MaxStarts == 1     \* successful starts (capture handles activated) per run
FreqSpan == 30     \* channel frequencies from FreqSpan below the 2.4 GHz band to FreqSpan above

\* --------------------------------------------------------------- constants
DeauthIterations == 64     \* for seq = 0; seq < 64; seq++
Freq24Base == 2412         \* ((freq - 2412) / 5) + 1
Freq24Max == 2484          \* if freq <= 2484
ChannelStep == 5

Stations == 1..MaxAddr
BROADCAST_MAC == 0         \* identity of "ff:ff:ff:ff:ff:ff"
NoHW == << >>              \* make([]byte, 0) / nil
HW(a) == <<a>>
HwString(hw) == hw[1]      \* net.HardwareAddr.String(): the directory key
NilHandle == 0

\* The capture handles a run can activate, by number: those of the MaxStarts
\* successful starts and that of one start more, for the runs that start the
\* capture again after a stop.
Handles == 1..(MaxStarts + 1)

VARIABLES
    Started,        \* SessionModule running flag
    Targets,        \* w.Targets: [nil |-> BOOLEAN, Targets |-> key -> endpoint]
    ClientTarget,   \* w.ClientTarget
    BSTarget,       \* w.BSTarget
    Handle,         \* w.Handle: NilHandle or the id of a capture handle
    BroadcastMac,   \* w.BroadcastMac
    loops,          \* the classify goroutines, by start number (= handle id)
    nStarts,        \* number of successful starts so far
    cmd,            \* the command thread: idle, or inside the wlan.deauth sweep
    ev,             \* the step just taken: the command that returned and its
                    \* error, or a step of another kind
    atk,            \* the attack path's record for the current wlan.deauth
    crashed         \* the process has died (panic / fatal error)

vars == <<Started, Targets, ClientTarget, BSTarget, Handle, BroadcastMac,
          loops, nStarts, cmd, ev, atk, crashed>>

wvars == <<Started, Targets, ClientTarget, BSTarget, Handle, BroadcastMac>>

\* ------------------------------------------------------------ pure helpers

\* Go integer division truncates toward zero.
GoDiv(a, b) == IF a >= 0 THEN a \div b ELSE -((-a) \div b)

\* Mutant of WlanMhzToChannel: the band's last frequency left out.
WlanMhzToChannelExclusive(freq) ==
    IF freq < Freq24Max THEN GoDiv(freq - Freq24Base, ChannelStep) + 1 ELSE 0

WlanMhzToChannel(freq) ==
    IF freq <= Freq24Max THEN GoDiv(freq - Freq24Base, ChannelStep) + 1 ELSE 0

\* net.ParseMAC on an argument the handler's pattern accepted: the pattern lets
\* every separator be ':' or '-' on its own, the parser wants them all equal
\* to the first one.
Separators == {<<":", ":">>, <<"-", "-">>, <<":", "-">>}

\* The arguments given to "set bs" and to "set client": the operator attacks
\* base station 1 and, when a single client is picked, client 2.
BSArgs == [octets : {1}, seps : Separators]

ClientArgs == [octets : {2}, seps : Separators]

ParseMAC(s) ==
    IF \A i \in 1..Len(s.seps) : s.seps[i] = s.seps[1]
    THEN [hw |-> HW(s.octets), err |-> "nil"]
    ELSE [hw |-> NoHW, err |-> "invalid MAC address"]

\* ------------------------------------------------------- target directory
NilTargets == [nil |-> TRUE, Targets |-> << >>]

NewWlanTargets == [nil |-> FALSE, Targets |-> << >>]

MapAddIfNew(m, ssid, address, isAP, channel) ==
    IF address \in DOMAIN m
    THEN [m EXCEPT ![address].Channel = channel]
    ELSE [k \in DOMAIN m \cup {address} |->
            IF k = address
            THEN [Essid |-> ssid, IsAP |-> isAP, Channel |-> channel]
            ELSE m[k]]

AddIfNew(t, ssid, address, isAP, channel) ==
    [t EXCEPT !.Targets = MapAddIfNew(t.Targets, ssid, address, isAP, channel)]

ClearAll(t) == [t EXCEPT !.Targets = << >>]

\* ------------------------------------------------------------------ frames
\* A captured packet, by the layers gopacket decodes and the fields the
\* classifier reads.  info is the sequence of Dot11InformationElement layers
\* in the order they are decoded; packet.Layer(type) gives the first layer of
\* a type.
Element(id, info) == [ID |-> id, Info |-> info]

Packet(rt, info, d11, mt, to, from, a1, a2, a3, f) ==
    [radiotap |-> rt, info |-> info, dot11 |-> d11,
     mainType |-> mt, toDS |-> to, fromDS |-> from,
     Address1 |-> a1, Address2 |-> a2, Address3 |-> a3, freq |-> f]

Beacon(a, ssid, f) ==
    Packet(TRUE, <<Element("SSID", ssid), Element("Rates", "r")>>, TRUE,
           "Mgmt", FALSE, FALSE, HW(BROADCAST_MAC), HW(a), HW(a), f)

Uplink(b, c) ==
    Packet(TRUE, << >>, TRUE, "Data", TRUE, FALSE, HW(b), HW(c), HW(b), Freq24Base)

\* The frames the capture device delivers: a beacon of every station, an
\* uplink data frame for every (base station, client) pair, and frames that
\* fail one check of a scan.
Frames ==
    {Beacon(a, "net", Freq24Base) : a \in Stations}
    \cup {Uplink(b, c) : b \in Stations, c \in Stations}
    \cup {Beacon(1, "", Freq24Base),
          [Beacon(1, "net", Freq24Base) EXCEPT !.radiotap = FALSE],
          [Uplink(1, 2) EXCEPT !.fromDS = TRUE]}

\* ------------------------------------------------------- frame classifier
\* The AddIfNew call a scan makes, or none.
NoCall == [call |-> FALSE, ssid |-> "", address |-> 0, isAP |-> FALSE, channel |-> 0]

Call(ssid, address, isAP, channel) ==
    [call |-> TRUE, ssid |-> ssid, address |-> address, isAP |-> isAP,
     channel |-> channel]

\* Mutant of BSScanAccepts: the check of the SSID's length left out.
BSScanAcceptsAnySsid(w_BroadcastMac, packet) ==
    /\ packet.radiotap
    /\ Len(packet.info) > 0
    /\ packet.info[1].ID = "SSID"
    /\ packet.dot11
    /\ packet.Address1 = w_BroadcastMac

\* The checks of BSScan, in its order: radiotapLayer, dot11infoLayer (the
\* first information element), its ID, dot11Layer, dst and ssid.
BSScanAccepts(w_BroadcastMac, packet) ==
    /\ packet.radiotap
    /\ Len(packet.info) > 0
    /\ packet.info[1].ID = "SSID"
    /\ packet.dot11
    /\ packet.Address1 = w_BroadcastMac
    /\ Len(packet.info[1].Info) > 0

BSScan(w_BroadcastMac, packet) ==
    IF BSScanAccepts(w_BroadcastMac, packet)
    THEN Call(packet.info[1].Info, HwString(packet.Address3), TRUE,
              WlanMhzToChannel(packet.freq))
    ELSE NoCall

\* Mutant of ClientScanAccepts: the from-DS flag is not looked at.
ClientScanAcceptsAnyFromDS(bs, packet) ==
    /\ packet.radiotap
    /\ packet.dot11
    /\ packet.mainType = "Data"
    /\ packet.toDS
    /\ packet.Address1 = bs

ClientScanAccepts(bs, packet) ==
    /\ packet.radiotap
    /\ packet.dot11
    /\ packet.mainType = "Data"
    /\ packet.toDS /\ ~packet.fromDS
    /\ packet.Address1 = bs

ClientScan(bs, packet) ==
    IF ClientScanAccepts(bs, packet)
    THEN Call("", HwString(packet.Address2), FALSE, WlanMhzToChannel(packet.freq))
    ELSE NoCall

\* -------------------------------------------------- deauthentication engine
\* The roles of the three address fields of a frame, as the classifier reads
\* them: dst = dot11.Address1, src = dot11.Address2, bssid = dot11.Address3.
Dst(pkt) == pkt.Address1

Src(pkt) == pkt.Address2

Bssid(pkt) == pkt.Address3

buildDeauthPkt(address1, address2, address3, seq) ==
    [Address1 |-> address1, Address2 |-> address2, Address3 |-> address3,
     Type |-> "MgmtDeauthentication", Reason |-> "Class2FromNonAuth",
     SequenceNumber |-> seq]

\* w.Handle.WritePacketData on an open handle: the failAt-th write of the call
\* returns an error (failAt = 0: none does).
WriteFails(n, failAt) == n = failAt

\* Mutant of LoopCond: the loop bound taken inclusively.
LoopCondInclusive(seq) == seq <= DeauthIterations

\* for seq = 0; seq < 64; seq++
LoopCond(seq) == seq < DeauthIterations

\* Mutant of Abort: the write's error is ignored.
AbortNever(err) == FALSE

\* if err != nil { return }
Abort(err) == err

\* Mutant of FirstPkt: the first frame built with the second one's addresses.
FirstPktSwapped(ap, client, seq) == buildDeauthPkt(client, ap, ap, seq)

\* The frames of one iteration, in the order they are built and injected.
FirstPkt(ap, client, seq) == buildDeauthPkt(ap, client, ap, seq)

SecondPkt(ap, client, seq) == buildDeauthPkt(client, ap, ap, seq)

\* var seq uint16
SeqNumbers == 0..65535

\* The injection calls of the iteration with sequence number seq, in order,
\* each with the frame and whether the write returned an error. The writes of
\* iteration seq are the (2 * seq + 1)-th and the (2 * seq + 2)-th of the call.
Iteration(ap, client, seq, failAt) ==
    LET err1 == WriteFails(2 * seq + 1, failAt)
        call1 == [pkt |-> FirstPkt(ap, client, seq), err |-> err1]
        err2 == WriteFails(2 * seq + 2, failAt)
        call2 == [pkt |-> SecondPkt(ap, client, seq), err |-> err2]
    IN  IF Abort(err1) THEN <<call1>> ELSE <<call1, call2>>

\* Whether iteration seq ends in a return: it does when the check after its
\* last injection call fires.
Returns(ap, client, seq, failAt) ==
    LET calls == Iteration(ap, client, seq, failAt)
    IN  Abort(calls[Len(calls)].err)

\* The injection calls of SendDeauthPacket(ap, client), in order: those of the
\* iterations from 0 up to the first that returns, or up to the first sequence
\* number at which the loop condition fails.
SendDeauthPacket(ap, client, failAt) ==
    LET end == CHOOSE n \in SeqNumbers :
                   ~LoopCond(n) /\ \A m \in 0..(n - 1) : LoopCond(m)
        ran == {seq \in 0..(end - 1) :
                   \A m \in 0..(seq - 1) : ~Returns(ap, client, m, failAt)}
        last == Cardinality(ran) - 1
        n == 2 * last + Len(Iteration(ap, client, last, failAt))
    IN  IF ran = {} THEN << >>
        ELSE [i \in 1..n |->
                 Iteration(ap, client, (i - 1) \div 2, failAt)[((i - 1) % 2) + 1]]

FailAt == {1, 2}

\* The injection calls of every SendDeauthPacket call the model makes.
DeauthLogs ==
    [ap \in {HW(a) : a \in Stations}, client \in {HW(a) : a \in Stations},
     failAt \in {0} \cup FailAt |-> SendDeauthPacket(ap, client, failAt)]

\* ------------------------------------------------------------------- state
NoLoop == [pc |-> "none", call |-> NoCall]

\* The attack record of the wlan.deauth that is running or that ended in the
\* step just taken: sweep, whether it ranges over the directory; keys, the
\* keys of the directory when the range began; calls, how many times
\* SendDeauthPacket was called with each <<ap, client>>; latest, the latest
\* call as <<ap, client, what its writes did>>.
NoAttack == [sweep |-> FALSE, keys |-> {}, calls |-> << >>, latest |-> << >>]

Idle == [pc |-> "idle", iter |-> {}]

\* The step just taken: the command that returned and its error; a step inside
\* a command ("range") or of a goroutine ("goroutine"); with crashed, the
\* command or goroutine the process died in and why.
Event(name, err) == [name |-> name, err |-> err]

Init ==
    /\ Started = FALSE
    /\ Targets = NilTargets
    /\ ClientTarget = NoHW
    /\ BSTarget = NoHW
    /\ Handle = NilHandle
    /\ BroadcastMac = NoHW
    /\ loops = [l \in Handles |-> NoLoop]
    /\ nStarts = 0
    /\ cmd = Idle
    /\ ev = Event("init", "nil")
    /\ atk = NoAttack
    /\ crashed = FALSE

Running == Started

\* The capture handle h has been closed: the goroutine reading from it ran its
\* deferred w.Handle.Close().
Closed(h) == loops[h].pc = "done"

\* A handler may run: the process is alive and the command thread is free.
Prompt == ~crashed /\ cmd.pc = "idle"

\* The handler returns err to the session.
Return(name, err) == ev' = Event(name, err)

\* The process dies in `name` of `cause`: its memory is gone, and only the
\* record of what the attack path had done is kept.
Panic(name, cause, attack) ==
    /\ crashed' = TRUE
    /\ ev' = Event(name, cause)
    /\ atk' = attack
    /\ Started' = FALSE
    /\ Targets' = NilTargets
    /\ ClientTarget' = NoHW
    /\ BSTarget' = NoHW
    /\ Handle' = NilHandle
    /\ BroadcastMac' = NoHW
    /\ loops' = [l \in Handles |-> NoLoop]
    /\ nStarts' = 0
    /\ cmd' = Idle

\* ------------------------------------------------------- filter commands
SetClient(arg) ==
    /\ Prompt
    /\ ClientTarget' = ParseMAC(arg).hw
    /\ Return("wlan.recon set client", ParseMAC(arg).err)
    /\ atk' = NoAttack
    /\ UNCHANGED <<Started, Targets, BSTarget, Handle, BroadcastMac, loops,
                   nStarts, cmd, crashed>>

ClearClient ==
    /\ Prompt
    /\ ClientTarget' = NoHW
    /\ Return("wlan.recon clear client", "nil")
    /\ atk' = NoAttack
    /\ UNCHANGED <<Started, Targets, BSTarget, Handle, BroadcastMac, loops,
                   nStarts, cmd, crashed>>

\* if w.Targets != nil { w.Targets.ClearAll() }
ClearTargets(t) == IF ~t.nil THEN ClearAll(t) ELSE t

\* Mutant of SetBS: the directory is cleared only when the filter changes.
SetBSIfChanged(arg) ==
    /\ Prompt
    /\ Targets' = IF ParseMAC(arg).hw # BSTarget THEN ClearTargets(Targets) ELSE Targets
    /\ BSTarget' = ParseMAC(arg).hw
    /\ Return("wlan.recon set bs", ParseMAC(arg).err)
    /\ atk' = NoAttack
    /\ UNCHANGED <<Started, ClientTarget, Handle, BroadcastMac, loops,
                   nStarts, cmd, crashed>>

SetBS(arg) ==
    /\ Prompt
    /\ Targets' = ClearTargets(Targets)
    /\ BSTarget' = ParseMAC(arg).hw
    /\ Return("wlan.recon set bs", ParseMAC(arg).err)
    /\ atk' = NoAttack
    /\ UNCHANGED <<Started, ClientTarget, Handle, BroadcastMac, loops,
                   nStarts, cmd, crashed>>

ClearBS ==
    /\ Prompt
    /\ Targets' = ClearTargets(Targets)
    /\ BSTarget' = NoHW
    /\ Return("wlan.recon clear bs", "nil")
    /\ atk' = NoAttack
    /\ UNCHANGED <<Started, ClientTarget, Handle, BroadcastMac, loops,
                   nStarts, cmd, crashed>>

\* wlan.show: lists the directory (under its lock) and renders it; the model
\* keeps the error and that nothing of the module changes.
Show ==
    /\ Prompt
    /\ Return("wlan.show",
              IF Targets.nil THEN "Targets are not yet initialized" ELSE "nil")
    /\ atk' = NoAttack
    /\ UNCHANGED <<wvars, loops, nStarts, cmd, crashed>>

\* ------------------------------------------------------ capture lifecycle
\* The steps of Configure that can fail.
ConfigSteps == {"open", "rfmon", "snaplen", "timeout", "activate"}

ConfigOutcomes == {"ok"} \cup ConfigSteps

\* Configure with outcome o and, when it returns nil, SetRunning(true, loop).
\*   open      NewInactiveHandle fails: its error is not looked at, inactive is
\*             nil and inactive.SetRFMon dereferences it: the handler panics
\*   rfmon, snaplen, timeout   the setter's error is returned
\*   activate  w.Handle takes Activate's nil handle and the error is returned
\*   ok        (at most max times in a run) w.Handle is the new handle, the flag
\*             is set and the goroutine
\*             is spawned; it binds to w.Handle (deferred Close, packet
\*             source) before the next command is handled
Configure(o, max) ==
    CASE o = "open" -> Panic("wlan.recon on", o, NoAttack)
      [] o \in {"rfmon", "snaplen", "timeout"} ->
            /\ Targets' = NewWlanTargets
            /\ BroadcastMac' = HW(BROADCAST_MAC)
            /\ atk' = NoAttack
            /\ Return("wlan.recon on", o)
            /\ UNCHANGED <<Started, ClientTarget, BSTarget, Handle, loops,
                           nStarts, cmd, crashed>>
      [] o = "activate" ->
            /\ Targets' = NewWlanTargets
            /\ BroadcastMac' = HW(BROADCAST_MAC)
            /\ atk' = NoAttack
            /\ Handle' = NilHandle
            /\ Return("wlan.recon on", o)
            /\ UNCHANGED <<Started, ClientTarget, BSTarget, loops,
                           nStarts, cmd, crashed>>
      [] o = "ok" ->
            /\ nStarts < max
            /\ Targets' = NewWlanTargets
            /\ BroadcastMac' = HW(BROADCAST_MAC)
            /\ atk' = NoAttack
            /\ nStarts' = nStarts + 1
            /\ Handle' = nStarts + 1
            /\ Started' = TRUE
            /\ loops' = [loops EXCEPT ![nStarts + 1] = [NoLoop EXCEPT !.pc = "read"]]
            /\ Return("wlan.recon on", "nil")
            /\ UNCHANGED <<ClientTarget, BSTarget, cmd, crashed>>

AlreadyStarted ==
    /\ Return("wlan.recon on", "already started")
    /\ atk' = NoAttack
    /\ UNCHANGED <<wvars, loops, nStarts, cmd, crashed>>

\* Mutant of Start: the running flag is not looked at.
StartUnguarded(o) ==
    /\ Prompt
    /\ Configure(o, MaxStarts)

Start(o) ==
    /\ Prompt
    /\ IF Running THEN o = "ok" /\ AlreadyStarted ELSE Configure(o, MaxStarts)

\* "wlan.recon on" in a run that may start the capture once more.
StartAgain(o) ==
    /\ Prompt
    /\ IF Running THEN o = "ok" /\ AlreadyStarted ELSE Configure(o, MaxStarts + 1)

Stop ==
    /\ Prompt
    /\ Started' = FALSE
    /\ Return("wlan.recon off", "nil")
    /\ atk' = NoAttack
    /\ UNCHANGED <<Targets, ClientTarget, BSTarget, Handle, BroadcastMac,
                   loops, nStarts, cmd, crashed>>

\* --------------------------------------------------- the classify goroutine
\* The attack record a step of a goroutine leaves: that of the wlan.deauth
\* still running, if any.
Ongoing == IF cmd.pc = "sweep" THEN atk ELSE NoAttack

\* Mutant of LoopRecv: the running flag is not looked at.
LoopRecvUnchecked(l, f) ==
    /\ ~crashed
    /\ loops[l].pc = "read"
    /\ loops' = [loops EXCEPT ![l] =
          [pc |-> "scan",
           call |-> IF Len(BSTarget) > 0 THEN ClientScan(BSTarget, f)
                                         ELSE BSScan(BroadcastMac, f)]]
    /\ ev' = Event("goroutine", "nil")
    /\ atk' = Ongoing
    /\ UNCHANGED <<wvars, nStarts, cmd, crashed>>

\* The blocking read of goroutine l returns packet f.  The running flag
\* cleared, the loop breaks and the deferred Close runs.  Otherwise the packet
\* is dispatched on w.BSTarget as it is now and the scan runs up to its
\* AddIfNew call.
LoopRecv(l, f) ==
    /\ ~crashed
    /\ loops[l].pc = "read"
    /\ loops' = [loops EXCEPT ![l] =
          IF Running = FALSE THEN [pc |-> "done", call |-> NoCall]
          ELSE [pc |-> "scan",
                call |-> IF Len(BSTarget) > 0 THEN ClientScan(BSTarget, f)
                                              ELSE BSScan(BroadcastMac, f)]]
    /\ ev' = Event("goroutine", "nil")
    /\ atk' = Ongoing
    /\ UNCHANGED <<wvars, nStarts, cmd, crashed>>

\* The directory after the call c.
Applied(t, c) ==
    IF c.call THEN AddIfNew(t, c.ssid, c.address, c.isAP, c.channel) ELSE t

\* The scan of goroutine l makes its AddIfNew call, if any, on w.Targets as it
\* is now, and the loop goes back to the read.  When the call inserts a key
\* while the command thread ranges over the map without the lock (SendDeauth),
\* the range may produce the new entry or skip it, or the runtime detects the
\* concurrent map write and the process dies.
LoopScan(l) ==
    /\ ~crashed
    /\ loops[l].pc = "scan"
    /\ LET new == DOMAIN Applied(Targets, loops[l].call).Targets \ DOMAIN Targets.Targets
       IN  \/ /\ Targets' = Applied(Targets, loops[l].call)
              /\ loops' = [loops EXCEPT ![l] = [pc |-> "read", call |-> NoCall]]
              /\ \/ UNCHANGED cmd
                 \/ /\ cmd.pc = "sweep" /\ new # {}
                    /\ cmd' = [cmd EXCEPT !.iter = @ \cup new]
              /\ ev' = Event("goroutine", "nil")
              /\ atk' = Ongoing
              /\ UNCHANGED <<Started, ClientTarget, BSTarget, Handle, BroadcastMac,
                             nStarts, crashed>>
           \/ /\ cmd.pc = "sweep" /\ new # {}
              /\ Panic("goroutine", "concurrent map iteration and map write", atk)

\* ------------------------------------------------------------- wlan.deauth
\* What the writes of one SendDeauthPacket call can do: -1, the process dies
\* (nil handle: nil dereference; closed handle: use of freed memory); 0, every
\* write succeeds; k > 0, the k-th write returns an error.
WriteScripts ==
    IF Handle = NilHandle THEN {-1}
    ELSE IF Closed(Handle) THEN {-1, 0} \cup FailAt
    ELSE {0} \cup FailAt

\* Why a call with script -1 kills the process.
WriteDeath ==
    IF Handle = NilHandle THEN "write on nil handle" ELSE "write on closed handle"

Counted(calls, pair) ==
    [p \in DOMAIN calls \cup {pair} |->
        (IF p \in DOMAIN calls THEN calls[p] ELSE 0) + (IF p = pair THEN 1 ELSE 0)]

\* The attack record after the call SendDeauthPacket(ap, client).
Called(a, ap, client, out) ==
    [a EXCEPT !.calls = Counted(a.calls, <<ap, client>>),
              !.latest = <<ap, client, out>>]

\* The injection calls of the latest SendDeauthPacket call: none when the first
\* write killed the process.
InjectionLog ==
    IF Len(atk.latest) = 0 \/ atk.latest[3] = -1 THEN << >>
    ELSE DeauthLogs[atk.latest[1], atk.latest[2], atk.latest[3]]

\* t.Endpoint.HW of the entry stored under key k.
EndpointHW(k) == HW(k)

\* Mutant of DeauthBranch: a client filter alone is taken for a target too.
DeauthBranchAnyFilter(bs, client) ==
    IF Len(bs) > 0 /\ Len(client) > 0 THEN "pair"
    ELSE IF Len(bs) > 0 \/ Len(client) > 0 THEN "sweep"
    ELSE "default"

\* Mutant of DeauthBranch: the cases of the switch in the other order.
DeauthBranchSweepFirst(bs, client) ==
    IF Len(bs) > 0 THEN "sweep"
    ELSE IF Len(bs) > 0 /\ Len(client) > 0 THEN "pair"
    ELSE "default"

\* The case the switch of SendDeauth takes.
DeauthBranch(bs, client) ==
    IF Len(bs) > 0 /\ Len(client) > 0 THEN "pair"
    ELSE IF Len(bs) > 0 THEN "sweep"
    ELSE "default"

\* The range over w.Targets.Targets goes on with the keys left to produce: it
\* ends, or it produces one (in no order) and the body calls SendDeauthPacket.
Range(keys, a) ==
    IF keys = {}
    THEN /\ cmd' = Idle
         /\ atk' = a
         /\ Return("wlan.deauth", "nil")
         /\ UNCHANGED <<wvars, loops, nStarts, crashed>>
    ELSE \E k \in keys, out \in WriteScripts :
            IF out = -1
            THEN Panic("wlan.deauth", WriteDeath, Called(a, BSTarget, EndpointHW(k), out))
            ELSE /\ cmd' = [pc |-> "sweep", iter |-> keys \ {k}]
                 /\ atk' = Called(a, BSTarget, EndpointHW(k), out)
                 /\ ev' = Event("range", "nil")
                 /\ UNCHANGED <<wvars, loops, nStarts, crashed>>

SendDeauth ==
    /\ Prompt
    /\ CASE DeauthBranch(BSTarget, ClientTarget) = "pair" ->
              \E out \in WriteScripts :
                 IF out = -1
                 THEN Panic("wlan.deauth", WriteDeath,
                            Called(NoAttack, BSTarget, ClientTarget, out))
                 ELSE /\ atk' = Called(NoAttack, BSTarget, ClientTarget, out)
                      /\ Return("wlan.deauth", "nil")
                      /\ UNCHANGED <<wvars, loops, nStarts, cmd, crashed>>
         [] DeauthBranch(BSTarget, ClientTarget) = "sweep" ->
              IF Targets.nil
              THEN Panic("wlan.deauth", "range over nil directory", NoAttack)
              ELSE Range(DOMAIN Targets.Targets,
                         [NoAttack EXCEPT !.sweep = TRUE,
                                          !.keys = DOMAIN Targets.Targets])
         [] OTHER ->
              /\ Return("wlan.deauth", "Base station is not set.")
              /\ atk' = NoAttack
              /\ UNCHANGED <<wvars, loops, nStarts, cmd, crashed>>

\* The body of the range has returned: the next iteration, or the end.
SweepNext ==
    /\ ~crashed
    /\ cmd.pc = "sweep"
    /\ Range(cmd.iter, atk)

\* ------------------------------------------------------------ specification
Next ==
    \/ \E arg \in ClientArgs : SetClient(arg)
    \/ ClearClient
    \/ \E arg \in BSArgs : SetBS(arg)
    \/ ClearBS
    \/ Show
    \/ \E o \in ConfigOutcomes : Start(o)
    \/ Stop
    \/ SendDeauth
    \/ SweepNext
    \/ \E l \in Handles, f \in Frames : LoopRecv(l, f)
    \/ \E l \in Handles : LoopScan(l)

Spec == Init /\ [][Next]_vars

\* The scheduler runs a goroutine that can run, and the command thread goes on
\* with the handler it is in.  Nothing makes the capture device deliver a
\* frame, or the operator type a command.
FairSpec ==
    /\ Spec
    /\ WF_vars(\E l \in Handles : LoopScan(l))
    /\ WF_vars(SweepNext)

\* The same program in runs that start the capture again after a stop.
RestartNext ==
    \/ \E arg \in ClientArgs : SetClient(arg)
    \/ ClearClient
    \/ \E arg \in BSArgs : SetBS(arg)
    \/ ClearBS
    \/ Show
    \/ \E o \in ConfigOutcomes : StartAgain(o)
    \/ Stop
    \/ SendDeauth
    \/ SweepNext
    \/ \E l \in Handles, f \in Frames : LoopRecv(l, f)
    \/ \E l \in Handles : LoopScan(l)

RestartSpec == Init /\ [][RestartNext]_vars

\* ----------------------------------------------- the classifier on its own
\* The module right after "wlan.recon on" succeeded with the base-station
\* filter bs (empty, or set before the start): one goroutine blocked in its
\* read, an empty directory.
AfterStart(bs) ==
    /\ Started = TRUE
    /\ Targets = NewWlanTargets
    /\ ClientTarget = NoHW
    /\ BSTarget = bs
    /\ Handle = 1
    /\ BroadcastMac = HW(BROADCAST_MAC)
    /\ loops = [l \in Handles |->
                   IF l = 1 THEN [NoLoop EXCEPT !.pc = "read"] ELSE NoLoop]
    /\ nStarts = 1
    /\ cmd = Idle
    /\ ev = Event("wlan.recon on", "nil")
    /\ atk = NoAttack
    /\ crashed = FALSE

\* int(radiotap.ChannelFrequency) of the frames captured around the 2.4 GHz
\* band.
Freqs == (Freq24Base - FreqSpan)..(Freq24Max + FreqSpan)

\* The goroutine classifies beacons of one base station heard on any of these
\* frequencies.
ChannelInit == AfterStart(NoHW)

ChannelNext ==
    \/ \E f \in Freqs : LoopRecv(1, Beacon(1, "net", f))
    \/ LoopScan(1)

ChannelSpec == ChannelInit /\ [][ChannelNext]_vars

\* The frames the classifier is tried on: a packet gopacket decoded no 802.11
\* header from, with or without radio metadata, and every 802.11 frame made of
\* these header fields and information elements, heard on the first or the
\* last frequency of the 2.4 GHz band.
ScanElements ==
    {<< >>,
     <<Element("SSID", "net"), Element("Rates", "r")>>,
     <<Element("SSID", "")>>,
     <<Element("Rates", "r"), Element("SSID", "net")>>}

ScanTypes ==
    {<<"Mgmt", FALSE, FALSE>>, <<"Mgmt", TRUE, FALSE>>,
     <<"Data", TRUE, FALSE>>, <<"Data", TRUE, TRUE>>, <<"Data", FALSE, FALSE>>}

ScanPackets ==
    {Packet(rt, << >>, FALSE, "none", FALSE, FALSE, NoHW, NoHW, NoHW, Freq24Base) :
        rt \in BOOLEAN}
    \cup {Packet(rt, info, TRUE, t[1], t[2], t[3], HW(a1), HW(a23[1]), HW(a23[2]), f) :
            rt \in BOOLEAN, info \in ScanElements, t \in ScanTypes,
            a1 \in {BROADCAST_MAC, 1, 2}, a23 \in {<<2, 1>>, <<1, 2>>},
            f \in {Freq24Base, Freq24Max}}

\* The goroutine classifies these frames while the operator sets and clears
\* the base-station filter.
ScanInit == AfterStart(NoHW)

ScanNext ==
    \/ \E f \in ScanPackets : LoopRecv(1, f)
    \/ LoopScan(1)
    \/ \E arg \in BSArgs : SetBS(arg)
    \/ ClearBS

ScanSpec == ScanInit /\ [][ScanNext]_vars

\* ------------------------------------------------------------------ claims
\* The keys of the Target Directory (none while there is no directory).
DirKeys == IF Targets.nil THEN {} ELSE DOMAIN Targets.Targets

\* The step is taken by the wlan.deauth handler as it starts.
DeauthBegins == cmd.pc = "idle" /\ ev'.name \in {"wlan.deauth", "range"}

\* C1: whenever the base-station filter is empty, with the client filter
\* empty or set, wlan.deauth returns the error "Base station is not set." and
\* makes no SendDeauthPacket call, hence no injection call.
NoBaseStationFails ==
    [][(DeauthBegins /\ Len(BSTarget) = 0) =>
         /\ ev' = Event("wlan.deauth", "Base station is not set.")
         /\ ~crashed'
         /\ cmd'.pc = "idle"
         /\ DOMAIN atk'.calls = {}
         /\ Len(atk'.latest) = 0]_vars

\* C1 witness: the error was returned with a client filter set and no base
\* station, while capturing.
NoBaseStationWitness ==
    /\ ev = Event("wlan.deauth", "Base station is not set.")
    /\ Len(BSTarget) = 0
    /\ Len(ClientTarget) > 0
    /\ Started

\* C2: with both filters set, wlan.deauth makes exactly one SendDeauthPacket
\* call, for the pair (base station, client), and does not range over the
\* directory, whatever it holds.
PairAttackCallsOnce ==
    [][(DeauthBegins /\ Len(BSTarget) > 0 /\ Len(ClientTarget) > 0) =>
         /\ atk'.calls = (<<BSTarget, ClientTarget>> :> 1)
         /\ atk'.latest[1] = BSTarget /\ atk'.latest[2] = ClientTarget
         /\ ~atk'.sweep
         /\ cmd'.pc = "idle"]_vars

\* C2 witness: the pair attack returned while the directory held two entries.
PairAttackWitness ==
    /\ ev = Event("wlan.deauth", "nil")
    /\ Len(BSTarget) > 0 /\ Len(ClientTarget) > 0
    /\ Cardinality(DirKeys) = 2
    /\ atk.calls = (<<BSTarget, ClientTarget>> :> 1)

\* C3: when the sweep returns, SendDeauthPacket was called exactly once for
\* each entry the directory held when the sweep began, and for nothing else.
SweepCallsOncePerEntry ==
    (ev = Event("wlan.deauth", "nil") /\ atk.sweep) =>
        /\ DOMAIN atk.calls = {<<BSTarget, EndpointHW(k)>> : k \in atk.keys}
        /\ \A p \in DOMAIN atk.calls : atk.calls[p] = 1

\* C4: a SendDeauthPacket call whose writes all succeed makes exactly 128
\* injection calls, two for each sequence number 0..63 in increasing order.
FullRunInjects128 ==
    (Len(atk.latest) = 3 /\ atk.latest[3] = 0) =>
        /\ Len(InjectionLog) = 128
        /\ \A i \in 1..Len(InjectionLog) :
              /\ ~InjectionLog[i].err
              /\ InjectionLog[i].pkt.SequenceNumber = (i - 1) \div 2
              /\ InjectionLog[i].pkt.SequenceNumber \in 0..63

\* C4 witness: a wlan.deauth returned after a call whose writes all succeeded.
FullRunWitness ==
    /\ ev = Event("wlan.deauth", "nil")
    /\ Len(atk.latest) = 3 /\ atk.latest[3] = 0
    /\ Len(InjectionLog) = 128

\* C5 as stated: in every iteration the first frame is {dest = client, src =
\* base station, bssid = base station} and the second {dest = base station,
\* src = client, bssid = base station}.
RolesAsStated ==
    \A i \in 1..Len(InjectionLog) :
        LET pkt == InjectionLog[i].pkt
            ap == atk.latest[1]
            client == atk.latest[2]
        IN  IF i % 2 = 1
            THEN Dst(pkt) = client /\ Src(pkt) = ap /\ Bssid(pkt) = ap
            ELSE Dst(pkt) = ap /\ Src(pkt) = client /\ Bssid(pkt) = ap

\* C5 amended: in every iteration the first frame is {dest = base station, src
\* = client, bssid = base station} and the second {dest = client, src = base
\* station, bssid = base station}; the two roles alternate in that order.
RolesAsBuilt ==
    \A i \in 1..Len(InjectionLog) :
        LET pkt == InjectionLog[i].pkt
            ap == atk.latest[1]
            client == atk.latest[2]
        IN  IF i % 2 = 1
            THEN Dst(pkt) = ap /\ Src(pkt) = client /\ Bssid(pkt) = ap
            ELSE Dst(pkt) = client /\ Src(pkt) = ap /\ Bssid(pkt) = ap

\* C5 witness: a full run for a client other than the base station.
RolesWitness ==
    /\ Len(InjectionLog) = 128
    /\ atk.latest[1] # atk.latest[2]

\* C6: in one SendDeauthPacket call no injection call follows a failed one: a
\* failed write is the last of the call.
AbortOnFirstFailure ==
    \A i \in 1..Len(InjectionLog) :
        InjectionLog[i].err => i = Len(InjectionLog)

\* C6 witness: the second write of a call failed and the call ended there.
AbortWitness ==
    /\ Len(InjectionLog) = 2
    /\ ~InjectionLog[1].err
    /\ InjectionLog[2].err

StartWhileRunningRejected ==
    [][(cmd.pc = "idle" /\ Running /\ ev'.name = "wlan.recon on") =>
         /\ ev'.err = "already started"
         /\ ~crashed'
         /\ UNCHANGED <<Started, Handle, Targets, BSTarget, ClientTarget,
                        BroadcastMac, loops, nStarts>>]_vars

\* C8 witness: "already started" was returned over a directory with entries.
StartWhileRunningWitness ==
    /\ ev = Event("wlan.recon on", "already started")
    /\ DirKeys # {}
    /\ Len(BSTarget) > 0

\* C9: a start in which a configuration step fails returns that error, with
\* the lifecycle stopped and no goroutine spawned.
ConfigFailureReturnsError ==
    [][(cmd.pc = "idle" /\ ~crashed /\ ev'.name = "wlan.recon on"
          /\ ev'.err \in ConfigSteps) =>
         /\ ~crashed'
         /\ ~Started'
         /\ loops' = loops]_vars

\* C10: after a stop that found a goroutine alive, the goroutine ends (and
\* with it the handle is closed) without a further frame having to arrive.
StopEndsLoop ==
    \A l \in Handles :
        (ev = Event("wlan.recon off", "nil") /\ loops[l].pc \in {"read", "scan"})
            ~> (loops[l].pc \notin {"read", "scan"})

\* C11: an entry leaves the Target Directory only in a step of the "set bs" or
\* "clear bs" handler: in every other step of a live process every key of the
\* directory is still a key afterwards.
EntriesLeaveOnlyByFilterChange ==
    [][(~crashed' /\ ~(DirKeys \subseteq DirKeys')) =>
         ev'.name \in {"wlan.recon set bs", "wlan.recon clear bs"}]_vars

\* Truncating integer division, stated by its quotient and remainder: ch - 1
\* is the quotient of freq - 2412 by 5 when the remainder is smaller than 5 in
\* size and is zero or has the sign of freq - 2412.
IsFormulaChannel(freq, ch) ==
    \E r \in -4..4 :
        /\ 5 * (ch - 1) + r = freq - 2412
        /\ r = 0 \/ ((r > 0) <=> (freq > 2412))

\* The channel of the AddIfNew call the step makes is that of a beacon heard
\* on frequency freq.
ChannelStepOf(freq) == LoopRecv(1, Beacon(1, "net", freq))

\* C12 as stated: the channel computed for a frequency is the formula's up to
\* 2484 and 0 above, 2412 gives 1, 2484 gives 15, 2500 gives 0, and 0 is
\* computed only for a frequency above 2484.
ChannelAsStated ==
    [][\A freq \in Freqs : ChannelStepOf(freq) =>
          LET ch == loops'[1].call.channel
          IN  /\ freq <= 2484 => IsFormulaChannel(freq, ch)
              /\ freq > 2484 => ch = 0
              /\ freq = 2412 => ch = 1
              /\ freq = 2484 => ch = 15
              /\ freq = 2500 => ch = 0
              /\ ch = 0 => freq > 2484]_vars

\* C12 as amended: the same, except that 0 is computed for the frequencies
\* above 2484 and for 2403..2407, where the formula itself gives 0.
ChannelAsComputed ==
    [][\A freq \in Freqs : ChannelStepOf(freq) =>
          LET ch == loops'[1].call.channel
          IN  /\ freq <= 2484 => IsFormulaChannel(freq, ch)
              /\ freq > 2484 => ch = 0
              /\ freq = 2412 => ch = 1
              /\ freq = 2484 => ch = 15
              /\ freq = 2500 => ch = 0
              /\ ch = 0 <=> (freq > 2484 \/ freq \in 2403..2407)]_vars

\* C12 witness: a beacon heard on 2484 MHz is being classified (channel 15)
\* over an entry that a beacon heard above the band left with channel 0.
ChannelWitness ==
    /\ loops[1].pc = "scan"
    /\ loops[1].call.channel = 15
    /\ 1 \in DirKeys
    /\ Targets.Targets[1].Channel = 0

\* The frame carries an information element of kind SSID whose SSID is not
\* empty.
CarriesSsid(f) ==
    \E i \in DOMAIN f.info : f.info[i].ID = "SSID" /\ Len(f.info[i].Info) > 0

\* What the step of the goroutine that takes the frame off the device does
\* with the directory, once its scan has run: the AddIfNew call c, or nothing.
ScanEffect(c) ==
    IF c.call THEN AddIfNew(Targets, c.ssid, c.address, c.isAP, c.channel)
    ELSE Targets

\* C13 as stated: with no base-station filter, the frame taken off the device
\* leads to an AddIfNew call exactly when it has radio metadata, an SSID
\* element, an 802.11 header, the broadcast address as first address and a
\* non-empty SSID; the call has the third address as key, isAP = TRUE and the
\* channel of the frame's frequency.  Any other frame leaves the directory
\* as it is.
BSScanAsStated ==
    [][\A f \in ScanPackets : (Len(BSTarget) = 0 /\ LoopRecv(1, f)) =>
          LET c == loops'[1].call
          IN  /\ c.call <=> (/\ f.radiotap /\ f.dot11 /\ CarriesSsid(f)
                             /\ f.Address1 = HW(BROADCAST_MAC))
              /\ c.call => /\ c.address = f.Address3[1]
                           /\ c.isAP
                           /\ c.channel = IF f.freq = 2412 THEN 1 ELSE 15
              /\ ~c.call => ScanEffect(c) = Targets]_vars

\* C13 as amended: the same with the SSID element being the frame's first
\* information element.
BSScanAsBuilt ==
    [][\A f \in ScanPackets : (Len(BSTarget) = 0 /\ LoopRecv(1, f)) =>
          LET c == loops'[1].call
          IN  /\ c.call <=> (/\ f.radiotap /\ f.dot11
                             /\ Len(f.info) > 0
                             /\ f.info[1].ID = "SSID" /\ Len(f.info[1].Info) > 0
                             /\ f.Address1 = HW(BROADCAST_MAC))
              /\ c.call => /\ c.address = f.Address3[1]
                           /\ c.isAP
                           /\ c.channel = IF f.freq = 2412 THEN 1 ELSE 15
              /\ ~c.call => ScanEffect(c) = Targets]_vars

\* C13 witness: with no filter, a base-station call is in flight over a
\* directory that already holds an entry.
BSScanWitness ==
    /\ Len(BSTarget) = 0
    /\ loops[1].pc = "scan"
    /\ loops[1].call.call /\ loops[1].call.isAP
    /\ DirKeys # {}

\* C14: with the base-station filter B set, the frame taken off the device
\* leads to an AddIfNew call exactly when it has radio metadata, is a data
\* frame with to-DS set and from-DS clear, and has B as first address; the
\* call has the second address as key, an empty SSID and isAP = FALSE.  Any
\* other frame leaves the directory as it is.
ClientScanAsStated ==
    [][\A f \in ScanPackets : (Len(BSTarget) > 0 /\ LoopRecv(1, f)) =>
          LET c == loops'[1].call
          IN  /\ c.call <=> (/\ f.radiotap
                             /\ f.mainType = "Data" /\ f.toDS /\ ~f.fromDS
                             /\ f.Address1 = BSTarget)
              /\ c.call => /\ c.address = f.Address2[1]
                           /\ c.ssid = ""
                           /\ ~c.isAP
              /\ ~c.call => ScanEffect(c) = Targets]_vars

\* C14 witness: with the filter set, a client call is in flight over a
\* directory that already holds a client entry.
ClientScanWitness ==
    /\ Len(BSTarget) > 0
    /\ loops[1].pc = "scan"
    /\ loops[1].call.call /\ ~loops[1].call.isAP
    /\ \E k \in DirKeys : ~Targets.Targets[k].IsAP

\* C15: the command thread reads the directory's entries only under the
\* directory's lock, so no goroutine makes its AddIfNew call while the range
\* of the sweep is going on: the call waits for the lock.
NoInsertDuringIteration ==
    [][cmd.pc = "sweep" =>
         \A l \in DOMAIN loops :
             (loops[l].pc = "scan" /\ loops[l].call.call) => loops'[l] = loops[l]]_vars

\* C16: with the running flag cleared, a goroutine that takes a frame off the
\* device discards it and ends, leaving the directory as it is; so after a
\* stop a loop makes at most the AddIfNew call of the classification it was in.
\* A loop that has ended stays ended.
StopIsCooperative ==
    [][\A l \in DOMAIN loops :
          /\ (~Started /\ ~crashed' /\ loops[l].pc = "read" /\ loops'[l] # loops[l])
                => (loops'[l].pc = "done" /\ Targets' = Targets)
          /\ (~crashed' /\ loops[l].pc = "done") => loops'[l].pc = "done"]_vars

\* C16 witness: after a stop, a loop has discarded a frame and ended, over a
\* directory that holds entries.
StopIsCooperativeWitness ==
    /\ ~Started
    /\ ev.name = "goroutine"
    /\ \E l \in DOMAIN loops : loops[l].pc = "done"
    /\ DirKeys # {}

\* The goroutines that are alive: spawned and not yet returned.
Alive == {l \in DOMAIN loops : loops[l].pc \in {"read", "scan"}}

\* C17: at most one classify goroutine is alive at any time.
AtMostOneLoop == Cardinality(Alive) <= 1

\* C18: whenever a base-station filter is set (the "set bs" that set it has
\* returned), every entry of the directory is a client entry: not a base
\* station, with an empty SSID.
OnlyClientsUnderFilter ==
    (Len(BSTarget) > 0 /\ ~Targets.nil) =>
        \A k \in DOMAIN Targets.Targets :
            ~Targets.Targets[k].IsAP /\ Targets.Targets[k].Essid = ""

\* The step of the attack path makes a SendDeauthPacket call.
CallMade ==
    IF cmd.pc = "sweep" THEN atk'.calls # atk.calls ELSE DOMAIN atk'.calls # {}

\* C19: a step of wlan.deauth never kills the process; when it makes a
\* SendDeauthPacket call, w.Handle is a handle that was activated and has not
\* been closed; when it ranges over the directory, the directory exists.
AttackUsesLiveHandle ==
    [][(~crashed /\ ev'.name \in {"wlan.deauth", "range"}) =>
         /\ ~crashed'
         /\ CallMade => (Handle # NilHandle /\ ~Closed(Handle))
         /\ atk'.sweep => ~Targets.nil]_vars

\* C20: a "set bs" or "set client" that returns the parser's error leaves the
\* base-station filter, the client filter and the directory as they were.
ParseErrorChangesNothing ==
    [][(cmd.pc = "idle" /\ ~crashed'
          /\ ev'.name \in {"wlan.recon set bs", "wlan.recon set client"}
          /\ ev'.err # "nil") =>
         UNCHANGED <<BSTarget, ClientTarget, Targets>>]_vars

====
